---- MODULE Spec2Model ----
(***************************************************************************)
(* A model of barf.analysis.codeanalyzer.CodeAnalyzer                      *)
(* (src/barf/analysis/codeanalyzer/codeanalyzer.py).                       *)
(*                                                                         *)
(* The analyzer drives two collaborators that live outside the file: the   *)
(* SMT translator (register versioning and the translation of one REIL     *)
(* instruction into assertions) and the SMT solver (an assertion stack, a  *)
(* satisfiability check).  Both are modelled from their interface: the     *)
(* translator names the n-th version of register r as <<r, n>>, version 0  *)
(* being the initial name, and the solver decides a conjunction of         *)
(* bit-vector equations of width W by evaluation.                          *)
(*                                                                         *)
(* check_path_satisfiability is modelled statement by statement: pc is the *)
(* position in its loops, bi / di / ii index the block pair, the native    *)
(* (dual) instruction and the REIL instruction.  trace is the record of    *)
(* the call in progress: one entry per logger record and per solver call.  *)
(***************************************************************************)
EXTENDS Integers, Sequences, FiniteSets, TLC

\* ------------------------------------------------------------------ bounds

\* Width in bits of every modelled bit-vector.
W == 3

\* Longest path handed to check_path_satisfiability.
MaxPathLen == 3

\* Highest version number the translator hands out for one name.
MaxVer == 8

\* Most API calls in one session.
MaxOps == 4

\* Python's None, for a branch target a block does not have.
None == -1

Modulus == 2 ^ W

Domain == 0 .. (Modulus - 1)

\* ---------------------------------------------------- REIL and basic blocks

Reg(n) == [kind |-> "reg", name |-> n, imm |-> 0]

Imm(k) == [kind |-> "imm", name |-> "", imm |-> k % Modulus]

Empty == [kind |-> "empty", name |-> "", imm |-> 0]

ReilInstr(m, o0, o1, o2) == [mnemonic |-> m, operands |-> <<o0, o1, o2>>]

DualInstr(a, sz, irs) == [address |-> a, size |-> sz, ir_instrs |-> irs]

\* A native instruction whose REIL code jumps inside itself before it adds 1
\* to eax, then cmp eax, 6 / je: that conditional jump closes the block, and
\* one more REIL instruction follows it inside the same native instruction.
BodyA ==
    << DualInstr(16, 1, << ReilInstr("jcc", Reg("zf"), Empty, Imm(0)),
                           ReilInstr("add", Reg("eax"), Imm(1), Reg("eax")) >>),
       DualInstr(17, 2, << ReilInstr("add", Reg("eax"), Imm(Modulus - 6), Reg("t1")),
                           ReilInstr("bisz", Reg("t1"), Empty, Reg("t0")),
                           ReilInstr("jcc", Reg("t0"), Empty, Imm(0)),
                           ReilInstr("stm", Reg("eax"), Empty, Imm(0)) >>) >>

\* A call-like native instruction holding a JCC in the middle of the block,
\* then a plain instruction: the block ends by running out of instructions.
BodyB ==
    << DualInstr(32, 1, << ReilInstr("jcc", Imm(1), Empty, Imm(0)),
                           ReilInstr("stm", Reg("eax"), Empty, Imm(1)) >>),
       DualInstr(33, 1, << ReilInstr("add", Reg("eax"), Imm(1), Reg("eax")) >>) >>

\* The instruction list of a block, by the name the block carries.
Body(name) == IF name = "A" THEN BodyA ELSE BodyB

\* for dinstr in bb: the block's native instructions, in address order.
Instrs(b) == Body(b.body)

\* A basic block over a non-empty instruction list: it starts at its first
\* instruction and ends at the last byte of its last one.
BasicBlock(name, t, n, d) ==
    [address |-> Body(name)[1].address,
     end_address |-> Body(name)[Len(Body(name))].address
                        + Body(name)[Len(Body(name))].size - 1,
     body |-> name,
     taken_branch |-> t,
     not_taken_branch |-> n,
     direct_branch |-> d]

Targets == {None, 32}

\* The branch fields are read only at a JCC that closes the block, so only
\* BodyA is paired with every combination of them.
Blocks ==
    { BasicBlock("A", t, n, d) : t \in Targets, n \in Targets, d \in Targets }
    \cup { BasicBlock("B", None, None, None) }

\* A path's last block is never iterated: only its address is read.
LastBlocks == { BasicBlock("A", None, None, None), BasicBlock("B", None, None, None) }

RECURSIVE PathsOfLen(_)
PathsOfLen(n) ==
    IF n = 0 THEN { <<>> }
    ELSE IF n = 1 THEN { <<b>> : b \in LastBlocks }
    ELSE { <<b>> \o p : b \in Blocks, p \in PathsOfLen(n - 1) }

Paths == UNION { PathsOfLen(n) : n \in 0 .. MaxPathLen }

StartAddresses == { 16, 33 }

\* ------------------------------------------------------------- translator

VerNames == { "eax", "ebx", "t0", "t1", "zf", "mem" }

MemAddrs == << 0, 1 >>

Cell(a) == IF a = 0 THEN "m0" ELSE "m1"

InitVer == [n \in VerNames |-> 0]

get_init_name(n) == << n, 0 >>

get_curr_name(v, n) == << n, v[n] >>

\* mem[addr] over the translator's current memory array.
MemCurr(v, a) == << Cell(a), v["mem"] >>

\* An operand read as a source: an immediate is its value, a register its
\* current name.
translate_src_oprnd(v, o) ==
    IF o.kind = "imm" THEN << "imm", o.imm >> ELSE get_curr_name(v, o.name)

Expr(op, d, s, c) == [op |-> op, d |-> d, s |-> s, c |-> c]

NoExpr == Expr("none", << "", 0 >>, << "", 0 >>, 0)

\* The name an instruction writes.
DstName(i) == IF i.mnemonic = "stm" THEN "mem" ELSE i.operands[3].name

CanTranslate(v, i) == v[DstName(i)] < MaxVer

\* translate(instr): the assertions of one instruction, the destination
\* getting a fresh version after the sources are read.
TranslateExprs(v, i) ==
    LET s == translate_src_oprnd(v, i.operands[1])
        n == v[DstName(i)] + 1
    IN CASE i.mnemonic = "add" ->
              << Expr("add", << i.operands[3].name, n >>, s, i.operands[2].imm) >>
         [] i.mnemonic = "bisz" ->
              << Expr("bisz", << i.operands[3].name, n >>, s, 0) >>
         [] i.mnemonic = "stm" ->
              [k \in 1 .. Len(MemAddrs) |->
                  IF MemAddrs[k] = i.operands[3].imm
                  THEN Expr("str", << Cell(MemAddrs[k]), n >>, s, 0)
                  ELSE Expr("str", << Cell(MemAddrs[k]), n >>, MemCurr(v, MemAddrs[k]), 0)]
         [] OTHER -> << >>

TranslateVer(v, i) ==
    IF i.mnemonic \in { "add", "bisz", "stm" }
    THEN [v EXCEPT ![DstName(i)] = @ + 1]
    ELSE v

\* ------------------------------------------------------------------ solver

EmptyEnv == [x \in {} |-> 0]

Ext(env, x, k) == [y \in (DOMAIN env) \cup {x} |-> IF y = x THEN k ELSE env[y]]

Known(env, e) == e[1] = "imm" \/ e \in DOMAIN env

Val(env, e) == IF e[1] = "imm" THEN e[2] ELSE env[e]

Rhs(env, a) ==
    CASE a.op = "const" -> a.c
      [] a.op = "add" -> (Val(env, a.s) + a.c) % Modulus
      [] a.op = "bisz" -> IF Val(env, a.s) = 0 THEN 1 ELSE 0
      [] a.op = "str" -> Val(env, a.s)

\* Is there an assignment of the symbols that satisfies every assertion?
\* A symbol first met as a source is free: every value is tried.
RECURSIVE Satisfiable(_, _)
Satisfiable(env, as) ==
    IF as = << >> THEN TRUE
    ELSE LET a == Head(as) IN
         IF a.op # "const" /\ ~Known(env, a.s)
         THEN \E k \in Domain : Satisfiable(Ext(env, a.s, k), as)
         ELSE IF Known(env, a.d)
              THEN Val(env, a.d) = Rhs(env, a) /\ Satisfiable(env, Tail(as))
              ELSE Satisfiable(Ext(env, a.d, Rhs(env, a)), Tail(as))

\* check(): the verdicts the solver may give; it may always give up.
SolverCheck(as) ==
    { IF Satisfiable(EmptyEnv, as) THEN "sat" ELSE "unsat", "unknown" }

\* Mutant: the assertions of one translation are added last to first.
RECURSIVE SolverAddAllReversed(_, _)
SolverAddAllReversed(as, exprs) ==
    IF exprs = << >> THEN as
    ELSE Append(SolverAddAllReversed(as, Tail(exprs)), Head(exprs))

\* What check() leaves of a model: one of everything asserted so far when
\* the verdict is "sat", none otherwise.
ModelAfter(v, as) == IF v = "sat" THEN Len(as) ELSE None

\* The loop `for smt_expr in ...: self._solver.add(smt_expr)`.
RECURSIVE SolverAddAll(_, _)
SolverAddAll(as, exprs) ==
    IF exprs = << >> THEN as
    ELSE SolverAddAll(Append(as, Head(exprs)), Tail(exprs))

\* symbol == value, as an assertion.
Bind(sym, value) == Expr("const", sym, << "imm", 0 >>, value)

\* declarations[name]: a symbol is declared once an assertion names it.
Declared(as, sym) ==
    \E k \in DOMAIN as : as[k].d = sym \/ (as[k].op # "const" /\ as[k].s = sym)

\* get_value(symbol) over a model of the assertions `as`: the values the
\* symbols `syms` can take together, one sequence of values per model.
RECURSIVE ModelValues(_, _)
ModelValues(as, syms) ==
    IF syms = << >> THEN { << >> }
    ELSE UNION { { << k >> \o m : m \in ModelValues(Append(as, Bind(Head(syms), k)), Tail(syms)) } :
                 k \in { j \in Domain : Satisfiable(EmptyEnv, Append(as, Bind(Head(syms), j))) } }

\* ---------------------------------------------------------------- contexts

\* A context maps register names, flag names and addresses to values.
RegMaps == { << >>, ("eax" :> 5), ("eax" :> 5) @@ ("ebx" :> 1) }

FlagMaps == { << >>, ("zf" :> 1) }

MemMaps == { << >>, (1 :> 2), (0 :> 7) @@ (1 :> 2) }

Contexts ==
    { [registers |-> r, flags |-> f, memory |-> m] :
        r \in RegMaps, f \in FlagMaps, m \in MemMaps }

\* The order in which a dictionary's items come out: fixed, unspecified.
RECURSIVE Items(_)
Items(S) ==
    IF S = {} THEN << >>
    ELSE LET x == CHOOSE y \in S : TRUE IN << x >> \o Items(S \ {x})

\* ------------------------------------------------------------------- state

VARIABLES
    solver_asserts,     \* the solver's assertion stack, oldest first
    solver_status,      \* verdict of the solver's last check, "none" before any
    solver_model,       \* how many assertions the solver's model satisfies, None
                        \* when the solver holds no model
    ver,                \* the translator's current version of every name
    context,            \* self._context: << >> for None, else << the context >>
    debug,              \* __debug__: are assert statements executed?
    op,                 \* the API operation started last
    ops,                \* how many API operations were started
    pc,                 \* "idle", or the position inside check_path_satisfiability
    path,               \* check_path_satisfiability: arguments and locals
    start_address,
    start_instr_found,
    sat,
    bi,                 \* index of bb_curr in path
    di,                 \* index of dinstr in bb_curr
    ii,                 \* index of reil_instr in dinstr.ir_instrs
    trace,              \* logger records and solver calls of the last operation
    ret                 \* what the last operation returned or raised

solver == << solver_asserts, solver_status, solver_model >>

frame == << path, start_address, start_instr_found, sat, bi, di, ii >>

vars == << solver_asserts, solver_status, solver_model, ver, context, debug, op, ops, pc, path,
           start_address, start_instr_found, sat, bi, di, ii, trace, ret >>

Init ==
    /\ solver_asserts = << >>
    /\ solver_status = "none"
    /\ solver_model = None
    /\ ver = InitVer
    /\ context = << >>
    /\ debug \in BOOLEAN
    /\ op = "none"
    /\ ops = 0
    /\ pc = "idle"
    /\ path = << >>
    /\ start_address = 0
    /\ start_instr_found = FALSE
    /\ sat = FALSE
    /\ bi = 0
    /\ di = 0
    /\ ii = 0
    /\ trace = << >>
    /\ ret = "none"

Ev(e, b, d, i, a, v) == [ev |-> e, bi |-> b, di |-> d, ii |-> i, a |-> a, v |-> v]

AddEvs(kind, b, d, i, exprs) ==
    [k \in 1 .. Len(exprs) |-> Ev(kind, b, d, i, exprs[k], "")]

\* An API operation starts: the previous call's locals are gone.
Begin(name) ==
    /\ pc = "idle"
    /\ ops < MaxOps
    /\ op' = name
    /\ ops' = ops + 1

NoFrame ==
    /\ path' = << >>
    /\ start_address' = 0
    /\ start_instr_found' = FALSE
    /\ sat' = FALSE
    /\ bi' = 0
    /\ di' = 0
    /\ ii' = 0

\* --------------------------------------------------------------- set_context

\* Mutant: a register is bound under its current name.
RegisterExprsCurrent(c) ==
    LET ns == Items(DOMAIN c.registers)
    IN [k \in 1 .. Len(ns) |->
           Expr("const", get_curr_name(ver, ns[k]), << "imm", 0 >>, c.registers[ns[k]])]

RegisterExprs(c) ==
    LET ns == Items(DOMAIN c.registers)
    IN [k \in 1 .. Len(ns) |->
           Expr("const", get_init_name(ns[k]), << "imm", 0 >>, c.registers[ns[k]])]

FlagExprs(c) ==
    LET ns == Items(DOMAIN c.flags)
    IN [k \in 1 .. Len(ns) |->
           Expr("const", get_init_name(ns[k]), << "imm", 0 >>, c.flags[ns[k]])]

MemoryExprs(v, c) ==
    LET as == Items(DOMAIN c.memory)
    IN [k \in 1 .. Len(as) |->
           Expr("const", MemCurr(v, as[k]), << "imm", 0 >>, c.memory[as[k]])]

ContextExprs(v, c) == RegisterExprs(c) \o FlagExprs(c) \o MemoryExprs(v, c)

\* Mutant: the solver is reset before the bindings are added.
SetContextResets(c) ==
    /\ Begin("set_context")
    /\ context' = << c >>
    /\ solver_asserts' = SolverAddAll(<< >>, ContextExprs(ver, c))
    /\ trace' = AddEvs("add", 0, 0, 0, ContextExprs(ver, c))
    /\ ret' = "none"
    /\ NoFrame
    /\ UNCHANGED << solver_status, solver_model, ver, debug, pc >>

SetContext(c) ==
    /\ Begin("set_context")
    /\ context' = << c >>
    /\ solver_asserts' = SolverAddAll(solver_asserts, ContextExprs(ver, c))
    /\ trace' = AddEvs("add", 0, 0, 0, ContextExprs(ver, c))
    /\ ret' = "none"
    /\ NoFrame
    /\ UNCHANGED << solver_status, solver_model, ver, debug, pc >>

\* --------------------------------------------------------------- get_context

\* Mutant: get_context reads the initial names.
ContextSymsInit(v, c) ==
    LET rs == Items(DOMAIN c.registers)
        fs == Items(DOMAIN c.flags)
        ms == Items(DOMAIN c.memory)
    IN [k \in 1 .. Len(rs) |-> [sym |-> get_init_name(rs[k]), declared |-> TRUE]]
       \o [k \in 1 .. Len(fs) |-> [sym |-> get_init_name(fs[k]), declared |-> TRUE]]
       \o [k \in 1 .. Len(ms) |-> [sym |-> << Cell(ms[k]), 0 >>, declared |-> FALSE]]

\* The symbols get_context reads, in the order it reads them: the current
\* name of every register and flag, looked up in the solver's declarations,
\* then the current memory array at every address.
ContextSyms(v, c) ==
    LET rs == Items(DOMAIN c.registers)
        fs == Items(DOMAIN c.flags)
        ms == Items(DOMAIN c.memory)
    IN [k \in 1 .. Len(rs) |-> [sym |-> get_curr_name(v, rs[k]), declared |-> TRUE]]
       \o [k \in 1 .. Len(fs) |-> [sym |-> get_curr_name(v, fs[k]), declared |-> TRUE]]
       \o [k \in 1 .. Len(ms) |-> [sym |-> MemCurr(v, ms[k]), declared |-> FALSE]]

\* Can get_value answer?  Not without a model; a model older than the last
\* assertion may or may not still be served.
CanRead ==
    IF solver_model = None THEN { FALSE }
    ELSE IF solver_model = Len(solver_asserts) THEN { TRUE }
    ELSE { TRUE, FALSE }

\* The assertions the solver's model satisfies.
ModelAsserts == SubSeq(solver_asserts, 1, solver_model)

\* How one read fails, "" when it does not: the declarations lookup of a name
\* no assertion declared, get_value without a model, get_value of a symbol
\* declared after the model was made.
Failure(read, can) ==
    IF read.declared /\ ~Declared(solver_asserts, read.sym) THEN "KeyError"
    ELSE IF ~can THEN "ModelError"
    ELSE IF read.declared /\ ~Declared(ModelAsserts, read.sym) THEN "ModelError"
    ELSE ""

\* What the reads of get_context come to: the exception of the first read
\* that fails, else the values read.
ReadOutcomes(reads, can) ==
    LET bad == { k \in DOMAIN reads : Failure(reads[k], can) # "" }
        first == CHOOSE k \in bad : \A j \in bad : k <= j
    IN IF bad # {}
       THEN { [ret |-> Failure(reads[first], can), vals |-> << >>] }
       ELSE { [ret |-> "GenericContext", vals |-> m] :
                m \in ModelValues(ModelAsserts, [k \in DOMAIN reads |-> reads[k].sym]) }

\* The get_value calls of a get_context that returned, with their results.
ValueEvs(reads, vals) ==
    [k \in DOMAIN vals |-> Ev("value", 0, 0, 0, Bind(reads[k].sym, vals[k]), "")]

\* The snapshot get_context builds out of the values read.
Snapshot(c, vals) ==
    LET rs == Items(DOMAIN c.registers)
        fs == Items(DOMAIN c.flags)
        ms == Items(DOMAIN c.memory)
    IN [registers |-> [n \in DOMAIN c.registers |->
                         vals[CHOOSE k \in DOMAIN rs : rs[k] = n]],
        flags |-> [n \in DOMAIN c.flags |->
                         vals[Len(rs) + (CHOOSE k \in DOMAIN fs : fs[k] = n)]],
        memory |-> [a \in DOMAIN c.memory |->
                         vals[Len(rs) + Len(fs) + (CHOOSE k \in DOMAIN ms : ms[k] = a)]]]

\* Mutant: the snapshot replaces the stored reference context.
GetContextStoresSnapshot ==
    /\ Begin("get_context")
    /\ IF context = << >>
       THEN /\ ret' = "AttributeError"
            /\ trace' = << >>
            /\ context' = context
       ELSE \E can \in CanRead :
            \E o \in ReadOutcomes(ContextSyms(ver, context[1]), can) :
               /\ ret' = o.ret
               /\ trace' = ValueEvs(ContextSyms(ver, context[1]), o.vals)
               /\ context' = IF o.ret = "GenericContext"
                             THEN << Snapshot(context[1], o.vals) >>
                             ELSE context
    /\ NoFrame
    /\ UNCHANGED << solver, ver, debug, pc >>

\* Mutant: without a model every value reads as 0.
GetContextDefaults ==
    /\ Begin("get_context")
    /\ IF context = << >>
       THEN /\ ret' = "AttributeError"
            /\ trace' = << >>
       ELSE IF solver_model = None
       THEN /\ ret' = "GenericContext"
            /\ trace' = ValueEvs(ContextSyms(ver, context[1]),
                                 [k \in DOMAIN ContextSyms(ver, context[1]) |-> 0])
       ELSE \E can \in CanRead :
            \E o \in ReadOutcomes(ContextSyms(ver, context[1]), can) :
               /\ ret' = o.ret
               /\ trace' = ValueEvs(ContextSyms(ver, context[1]), o.vals)
    /\ NoFrame
    /\ UNCHANGED << solver, ver, context, debug, pc >>

GetContext ==
    /\ Begin("get_context")
    /\ IF context = << >>
       THEN /\ ret' = "AttributeError"
            /\ trace' = << >>
       ELSE \E can \in CanRead :
            \E o \in ReadOutcomes(ContextSyms(ver, context[1]), can) :
               /\ ret' = o.ret
               /\ trace' = ValueEvs(ContextSyms(ver, context[1]), o.vals)
    /\ NoFrame
    /\ UNCHANGED << solver, ver, context, debug, pc >>

\* ----------------------------------------- add_instruction, reset and check

AddInstruction(i) ==
    /\ Begin("add_instruction")
    /\ CanTranslate(ver, i)
    /\ solver_asserts' = SolverAddAll(solver_asserts, TranslateExprs(ver, i))
    /\ ver' = TranslateVer(ver, i)
    /\ trace' = AddEvs("add", 0, 0, 0, TranslateExprs(ver, i))
    /\ ret' = "none"
    /\ NoFrame
    /\ UNCHANGED << solver_status, solver_model, context, debug, pc >>

AddConstraint(constraint) ==
    /\ Begin("add_constraint")
    /\ solver_asserts' = Append(solver_asserts, constraint)
    /\ trace' = AddEvs("add", 0, 0, 0, << constraint >>)
    /\ ret' = "none"
    /\ NoFrame
    /\ UNCHANGED << solver_status, solver_model, ver, context, debug, pc >>

SetPreconditions(conditions) ==
    /\ Begin("set_preconditions")
    /\ solver_asserts' = SolverAddAll(solver_asserts, conditions)
    /\ trace' = AddEvs("add", 0, 0, 0, conditions)
    /\ ret' = "none"
    /\ NoFrame
    /\ UNCHANGED << solver_status, solver_model, ver, context, debug, pc >>

SetPostconditions(conditions) ==
    /\ Begin("set_postconditions")
    /\ solver_asserts' = SolverAddAll(solver_asserts, conditions)
    /\ trace' = AddEvs("add", 0, 0, 0, conditions)
    /\ ret' = "none"
    /\ NoFrame
    /\ UNCHANGED << solver_status, solver_model, ver, context, debug, pc >>

\* Mutant: the translator is reset whatever `full` is.
ResetAlwaysFull(full) ==
    /\ Begin("reset")
    /\ solver_asserts' = << >>
    /\ solver_status' = "none"
    /\ solver_model' = None
    /\ ver' = InitVer
    /\ trace' = << Ev("reset", 0, 0, 0, NoExpr, "solver") >>
                 \o (IF full THEN << Ev("reset", 0, 0, 0, NoExpr, "translator") >> ELSE << >>)
    /\ ret' = "none"
    /\ NoFrame
    /\ UNCHANGED << context, debug, pc >>

\* Mutant: the translator is never reset.
ResetSolverOnly(full) ==
    /\ Begin("reset")
    /\ solver_asserts' = << >>
    /\ solver_status' = "none"
    /\ solver_model' = None
    /\ trace' = << Ev("reset", 0, 0, 0, NoExpr, "solver") >>
    /\ ret' = "none"
    /\ NoFrame
    /\ UNCHANGED << ver, context, debug, pc >>

Reset(full) ==
    /\ Begin("reset")
    /\ solver_asserts' = << >>
    /\ solver_status' = "none"
    /\ solver_model' = None
    /\ ver' = IF full THEN InitVer ELSE ver
    /\ trace' = << Ev("reset", 0, 0, 0, NoExpr, "solver") >>
                 \o (IF full THEN << Ev("reset", 0, 0, 0, NoExpr, "translator") >> ELSE << >>)
    /\ ret' = "none"
    /\ NoFrame
    /\ UNCHANGED << context, debug, pc >>

Check ==
    /\ Begin("check")
    /\ \E v \in SolverCheck(solver_asserts) :
         /\ solver_status' = v
         /\ solver_model' = ModelAfter(v, solver_asserts)
         /\ ret' = v
         /\ trace' = << Ev("check", 0, 0, 0, NoExpr, v) >>
    /\ NoFrame
    /\ UNCHANGED << solver_asserts, ver, context, debug, pc >>

\* ------------------------------------------------- check_path_satisfiability

BbCurr == path[bi]

BbNext == path[bi + 1]

CurDinstr == Instrs(BbCurr)[di]

CurReil == CurDinstr.ir_instrs[ii]

Event(e, a, v) == Ev(e, bi, di, ii, a, v)

\* Mutant: nothing is ever skipped.
KeepLookingNever(found, dinstr, start) == FALSE

\* Mutant: the flag is ignored, so only instructions at start_address pass.
KeepLookingForgetful(found, dinstr, start) == dinstr.address # start

\* Lines 292-296: is this instruction skipped while looking for the start?
KeepLooking(found, dinstr, start) == ~found /\ dinstr.address # start

\* Mutant: the position of the JCC is not checked.
IsLastInstrAlways(dinstr, curr) == TRUE

\* Line 307: does the native instruction end where the block ends?
IsLastInstr(dinstr, curr) == dinstr.address + dinstr.size - 1 = curr.end_address

\* Mutant: the assert statement forgets the direct branch.
BranchTargetOkNoDirect(curr, next) ==
    \/ curr.taken_branch = next.address
    \/ curr.not_taken_branch = next.address

\* Lines 316-318: the condition of the assert statement.
BranchTargetOk(curr, next) ==
    \/ curr.taken_branch = next.address
    \/ curr.not_taken_branch = next.address
    \/ curr.direct_branch = next.address

\* Mutant: the not-taken edge is tried first.
BranchGoalNotTakenFirst(curr, next) ==
    IF curr.not_taken_branch = next.address THEN 0
    ELSE IF curr.taken_branch = next.address THEN 1
    ELSE None

\* Mutant: the goals of the two edges are swapped.
BranchGoalInverted(curr, next) ==
    IF curr.taken_branch = next.address THEN 0
    ELSE IF curr.not_taken_branch = next.address THEN 1
    ELSE None

\* Lines 321-326: the goal of the branch variable, None for `continue`.
BranchGoal(curr, next) ==
    IF curr.taken_branch = next.address THEN 1
    ELSE IF curr.not_taken_branch = next.address THEN 0
    ELSE None

\* Lines 329-331: branch_var == branch_var_goal.
BranchConstraint(v, instr, goal) ==
    Expr("const", translate_src_oprnd(v, instr.operands[1]), << "imm", 0 >>, goal)

\* Mutant: a path of one block is iterated too.
CallCheckPathFromOne(p, s) ==
    /\ Begin("check_path_satisfiability")
    /\ path' = p
    /\ start_address' = s
    /\ start_instr_found' = FALSE
    /\ sat' = FALSE
    /\ bi' = 1
    /\ di' = 1
    /\ ii' = 1
    /\ trace' = << >>
    /\ ret' = "none"
    /\ pc' = IF Len(p) >= 1 THEN "dinstr" ELSE "return"
    /\ UNCHANGED << solver, ver, context, debug >>

\* Lines 280-285: the call, up to the head of the loop over the block pairs.
CallCheckPath(p, s) ==
    /\ Begin("check_path_satisfiability")
    /\ path' = p
    /\ start_address' = s
    /\ start_instr_found' = FALSE
    /\ sat' = FALSE
    /\ bi' = 1
    /\ di' = 1
    /\ ii' = 1
    /\ trace' = << >>
    /\ ret' = "none"
    /\ pc' = IF Len(p) >= 2 THEN "dinstr" ELSE "return"
    /\ UNCHANGED << solver, ver, context, debug >>

\* Lines 292-296: still looking for the start instruction, and this is not it.
SkipDinstr ==
    /\ pc = "dinstr"
    /\ di <= Len(Instrs(BbCurr))
    /\ KeepLooking(start_instr_found, CurDinstr, start_address)
    /\ di' = di + 1
    /\ UNCHANGED << solver, ver, context, debug, op, ops, pc, path, start_address,
                    start_instr_found, sat, bi, ii, trace, ret >>

\* Lines 292-298: the start instruction, or any instruction after it.
EnterDinstr ==
    /\ pc = "dinstr"
    /\ di <= Len(Instrs(BbCurr))
    /\ ~KeepLooking(start_instr_found, CurDinstr, start_address)
    /\ start_instr_found' = TRUE
    /\ ii' = 1
    /\ pc' = "ir"
    /\ trace' = Append(trace, Ev("dinstr", bi, di, 0, NoExpr, ""))
    /\ UNCHANGED << solver, ver, context, debug, op, ops, path, start_address,
                    sat, bi, di, ret >>

\* Line 301: the REIL instructions of the native instruction are exhausted.
EndDinstr ==
    /\ pc = "ir"
    /\ ii > Len(CurDinstr.ir_instrs)
    /\ pc' = "dinstr"
    /\ di' = di + 1
    /\ UNCHANGED << solver, ver, context, debug, op, ops, path, start_address,
                    start_instr_found, sat, bi, ii, trace, ret >>

\* Lines 338-342: any instruction but a JCC is translated and asserted.
TranslateIr ==
    /\ pc = "ir"
    /\ ii <= Len(CurDinstr.ir_instrs)
    /\ CurReil.mnemonic # "jcc"
    /\ CanTranslate(ver, CurReil)
    /\ solver_asserts' = SolverAddAll(solver_asserts, TranslateExprs(ver, CurReil))
    /\ ver' = TranslateVer(ver, CurReil)
    /\ trace' = Append(trace, Event("reil", NoExpr, ""))
                    \o AddEvs("add", bi, di, ii, TranslateExprs(ver, CurReil))
    /\ ii' = ii + 1
    /\ UNCHANGED << solver_status, solver_model, context, debug, op, ops, pc, path, start_address,
                    start_instr_found, sat, bi, di, ret >>

\* Lines 304-312: a JCC that is not in the block's last native instruction.
JccMisplaced ==
    /\ pc = "ir"
    /\ ii <= Len(CurDinstr.ir_instrs)
    /\ CurReil.mnemonic = "jcc"
    /\ ~IsLastInstr(CurDinstr, BbCurr)
    /\ trace' = trace \o << Event("reil", NoExpr, ""), Event("error", NoExpr, "") >>
    /\ ii' = ii + 1
    /\ UNCHANGED << solver, ver, context, debug, op, ops, pc, path, start_address,
                    start_instr_found, sat, bi, di, ret >>

\* Lines 316-318: the assert statement fails.
JccUnmatchedRaise ==
    /\ pc = "ir"
    /\ ii <= Len(CurDinstr.ir_instrs)
    /\ CurReil.mnemonic = "jcc"
    /\ IsLastInstr(CurDinstr, BbCurr)
    /\ debug
    /\ ~BranchTargetOk(BbCurr, BbNext)
    /\ trace' = Append(trace, Event("reil", NoExpr, ""))
    /\ pc' = "raised"
    /\ UNCHANGED << solver, ver, context, debug, op, ops, frame, ret >>

\* Mutant: `continue` instead of `break` after the branch-goal assertion.
JccGoalContinue ==
    /\ pc = "ir"
    /\ ii <= Len(CurDinstr.ir_instrs)
    /\ CurReil.mnemonic = "jcc"
    /\ CurDinstr.address + CurDinstr.size - 1 = BbCurr.end_address
    /\ debug => (\/ BbCurr.taken_branch = BbNext.address
                 \/ BbCurr.not_taken_branch = BbNext.address
                 \/ BbCurr.direct_branch = BbNext.address)
    /\ \/ BbCurr.taken_branch = BbNext.address
       \/ BbCurr.not_taken_branch = BbNext.address
    /\ LET g == IF BbCurr.taken_branch = BbNext.address THEN 1 ELSE 0
           c == Expr("const", translate_src_oprnd(ver, CurReil.operands[1]), << "imm", 0 >>, g)
       IN /\ solver_asserts' = Append(solver_asserts, c)
          /\ trace' = trace \o << Event("reil", NoExpr, ""), Event("goal", c, "") >>
    /\ ii' = ii + 1
    /\ UNCHANGED << solver_status, solver_model, ver, context, debug, op, ops, pc, path, start_address,
                    start_instr_found, sat, bi, di, ret >>

\* Lines 321-336: the edge is the taken or the not-taken one.
JccGoal ==
    /\ pc = "ir"
    /\ ii <= Len(CurDinstr.ir_instrs)
    /\ CurReil.mnemonic = "jcc"
    /\ IsLastInstr(CurDinstr, BbCurr)
    /\ debug => BranchTargetOk(BbCurr, BbNext)
    /\ BranchGoal(BbCurr, BbNext) # None
    /\ LET c == BranchConstraint(ver, CurReil, BranchGoal(BbCurr, BbNext))
       IN /\ solver_asserts' = Append(solver_asserts, c)
          /\ trace' = trace \o << Event("reil", NoExpr, ""), Event("goal", c, "") >>
    /\ pc' = "dinstr"
    /\ di' = di + 1
    /\ UNCHANGED << solver_status, solver_model, ver, context, debug, op, ops, path, start_address,
                    start_instr_found, sat, bi, ii, ret >>

\* Lines 325-326: neither the taken nor the not-taken edge.
JccNoGoal ==
    /\ pc = "ir"
    /\ ii <= Len(CurDinstr.ir_instrs)
    /\ CurReil.mnemonic = "jcc"
    /\ IsLastInstr(CurDinstr, BbCurr)
    /\ debug => BranchTargetOk(BbCurr, BbNext)
    /\ BranchGoal(BbCurr, BbNext) = None
    /\ trace' = Append(trace, Event("reil", NoExpr, ""))
    /\ ii' = ii + 1
    /\ UNCHANGED << solver, ver, context, debug, op, ops, pc, path, start_address,
                    start_instr_found, sat, bi, di, ret >>

\* Mutant: no `break` when the check is not satisfiable.
CheckBlockNoBreak ==
    /\ pc = "dinstr"
    /\ di > Len(Instrs(BbCurr))
    /\ \E v \in SolverCheck(solver_asserts) :
         /\ solver_status' = v
         /\ solver_model' = ModelAfter(v, solver_asserts)
         /\ sat' = (v = "sat")
         /\ trace' = Append(trace, Ev("check", bi, 0, 0, NoExpr, v))
         /\ IF bi < Len(path) - 1
            THEN /\ bi' = bi + 1
                 /\ di' = 1
                 /\ pc' = "dinstr"
            ELSE /\ pc' = "return"
                 /\ UNCHANGED << bi, di >>
    /\ UNCHANGED << solver_asserts, ver, context, debug, op, ops, path, start_address,
                    start_instr_found, ii, ret >>

\* Mutant: the check is issued once, after the last block pair only.
CheckBlockAtEndOnly ==
    /\ pc = "dinstr"
    /\ di > Len(Instrs(BbCurr))
    /\ IF bi < Len(path) - 1
       THEN /\ bi' = bi + 1
            /\ di' = 1
            /\ UNCHANGED << solver_status, solver_model, sat, trace, pc >>
       ELSE \E v \in SolverCheck(solver_asserts) :
               /\ solver_status' = v
               /\ solver_model' = ModelAfter(v, solver_asserts)
               /\ sat' = (v = "sat")
               /\ trace' = Append(trace, Ev("check", bi, 0, 0, NoExpr, v))
               /\ pc' = "return"
               /\ UNCHANGED << bi, di >>
    /\ UNCHANGED << solver_asserts, ver, context, debug, op, ops, path, start_address,
                    start_instr_found, ii, ret >>

\* Mutant: only "unsat" stops the call, "unknown" counts as satisfiable.
CheckBlockUnknownAsSat ==
    /\ pc = "dinstr"
    /\ di > Len(Instrs(BbCurr))
    /\ \E v \in SolverCheck(solver_asserts) :
         /\ solver_status' = v
         /\ solver_model' = ModelAfter(v, solver_asserts)
         /\ sat' = (v # "unsat")
         /\ trace' = Append(trace, Ev("check", bi, 0, 0, NoExpr, v))
         /\ IF v # "unsat" /\ bi < Len(path) - 1
            THEN /\ bi' = bi + 1
                 /\ di' = 1
                 /\ pc' = "dinstr"
            ELSE /\ pc' = "return"
                 /\ UNCHANGED << bi, di >>
    /\ UNCHANGED << solver_asserts, ver, context, debug, op, ops, path, start_address,
                    start_instr_found, ii, ret >>

\* Mutant: a check that is not satisfiable takes the call's assertions back.
CheckBlockRollsBack ==
    /\ pc = "dinstr"
    /\ di > Len(Instrs(BbCurr))
    /\ \E v \in SolverCheck(solver_asserts) :
         /\ solver_status' = v
         /\ solver_model' = ModelAfter(v, solver_asserts)
         /\ sat' = (v = "sat")
         /\ trace' = Append(trace, Ev("check", bi, 0, 0, NoExpr, v))
         /\ solver_asserts' =
               IF v = "sat" THEN solver_asserts
               ELSE SubSeq(solver_asserts, 1,
                           Len(solver_asserts)
                             - Cardinality({ j \in DOMAIN trace :
                                               trace[j].ev \in { "add", "goal" } }))
         /\ IF v = "sat" /\ bi < Len(path) - 1
            THEN /\ bi' = bi + 1
                 /\ di' = 1
                 /\ pc' = "dinstr"
            ELSE /\ pc' = "return"
                 /\ UNCHANGED << bi, di >>
    /\ UNCHANGED << ver, context, debug, op, ops, path, start_address,
                    start_instr_found, ii, ret >>

\* Lines 344-349: the block's instructions are exhausted.
CheckBlock ==
    /\ pc = "dinstr"
    /\ di > Len(Instrs(BbCurr))
    /\ \E v \in SolverCheck(solver_asserts) :
         /\ solver_status' = v
         /\ solver_model' = ModelAfter(v, solver_asserts)
         /\ sat' = (v = "sat")
         /\ trace' = Append(trace, Ev("check", bi, 0, 0, NoExpr, v))
         /\ IF v = "sat" /\ bi < Len(path) - 1
            THEN /\ bi' = bi + 1
                 /\ di' = 1
                 /\ pc' = "dinstr"
            ELSE /\ pc' = "return"
                 /\ UNCHANGED << bi, di >>
    /\ UNCHANGED << solver_asserts, ver, context, debug, op, ops, path, start_address,
                    start_instr_found, ii, ret >>

\* Line 352.
Return ==
    /\ pc = "return"
    /\ ret' = IF sat THEN "True" ELSE "False"
    /\ pc' = "idle"
    /\ UNCHANGED << solver, ver, context, debug, op, ops, frame, trace >>

\* The AssertionError leaves the call.
Unwind ==
    /\ pc = "raised"
    /\ ret' = "AssertionError"
    /\ pc' = "idle"
    /\ UNCHANGED << solver, ver, context, debug, op, ops, frame, trace >>

PathStep ==
    \/ SkipDinstr
    \/ EnterDinstr
    \/ EndDinstr
    \/ TranslateIr
    \/ JccMisplaced
    \/ JccUnmatchedRaise
    \/ JccGoal
    \/ JccNoGoal
    \/ CheckBlock
    \/ Return
    \/ Unwind

\* ----------------------------------------------------------- specifications

\* One call of check_path_satisfiability, on a fresh session or right after
\* a context was set.
PathContexts ==
    { [registers |-> ("eax" :> 5), flags |-> << >>, memory |-> << >>] }

Next ==
    \/ ops = 0 /\ \E c \in PathContexts : SetContext(c)
    \/ /\ pc = "idle"
       /\ op # "check_path_satisfiability"
       /\ \E p \in Paths, s \in StartAddresses : CallCheckPath(p, s)
    \/ PathStep

Spec == Init /\ [][Next]_vars

\* A session of API calls in any order, over a few short paths.
SessionBlocks ==
    { BasicBlock("A", 32, None, None), BasicBlock("A", None, None, 32),
      BasicBlock("A", None, None, None) }

SessionPaths ==
    { << b, BasicBlock("B", None, None, None) >> : b \in SessionBlocks }

SessionStarts == { 16, 17 }

SessionInstrs ==
    { ReilInstr("add", Reg("eax"), Imm(1), Reg("eax")),
      ReilInstr("stm", Reg("eax"), Empty, Imm(0)) }

\* One context binds every name and address, the other leaves ebx and
\* address 0 out.
SessionContexts ==
    { c \in Contexts :
        /\ c.flags # << >>
        /\ \/ DOMAIN c.registers = { "eax" } /\ DOMAIN c.memory = { 1 }
           \/ DOMAIN c.registers = { "eax", "ebx" } /\ DOMAIN c.memory = { 0, 1 } }

NextSession ==
    \/ pc = "idle" /\ ops < MaxOps - 1 /\ \E c \in SessionContexts : SetContext(c)
    \/ pc = "idle" /\ ops < MaxOps - 1 /\ \E i \in SessionInstrs : AddInstruction(i)
    \/ pc = "idle" /\ ops < MaxOps - 1 /\ \E f \in BOOLEAN : Reset(f)
    \/ ops < MaxOps - 1 /\ Check
    \/ /\ pc = "idle"
       /\ ops < MaxOps - 1
       /\ \E p \in SessionPaths, s \in SessionStarts : CallCheckPath(p, s)
    \/ PathStep

SpecSession == Init /\ [][NextSession]_vars

\* Every operation of the analyzer, over few inputs: the empty context, the
\* context eax = 5, and one with a register, a flag and an address.
ApiContexts ==
    { c \in Contexts :
        \/ c.registers = << >> /\ c.flags = << >> /\ c.memory = << >>
        \/ DOMAIN c.registers = { "eax" } /\ c.flags = << >> /\ c.memory = << >>
        \/ DOMAIN c.registers = { "eax" } /\ c.flags # << >> /\ DOMAIN c.memory = { 1 } }

ApiBlocks ==
    { BasicBlock("A", 32, None, None), BasicBlock("A", None, None, None) }

ApiPaths ==
    { << b, BasicBlock("B", None, None, None) >> : b \in ApiBlocks }

ApiInstrs == { ReilInstr("add", Reg("eax"), Imm(1), Reg("eax")) }

ApiConstraints == { Bind(get_init_name("eax"), 4) }

ApiConditions == { << Bind(get_init_name("ebx"), 1), Bind(get_init_name("zf"), 0) >> }

NextApi ==
    \/ pc = "idle" /\ ops < MaxOps - 1 /\ \E c \in ApiContexts : SetContext(c)
    \/ ops < MaxOps - 1 /\ GetContext
    \/ pc = "idle" /\ ops < MaxOps - 1 /\ \E i \in ApiInstrs : AddInstruction(i)
    \/ pc = "idle" /\ ops < MaxOps - 1 /\ \E e \in ApiConstraints : AddConstraint(e)
    \/ pc = "idle" /\ ops < MaxOps - 1 /\ \E cs \in ApiConditions : SetPreconditions(cs)
    \/ pc = "idle" /\ ops < MaxOps - 1 /\ \E cs \in ApiConditions : SetPostconditions(cs)
    \/ pc = "idle" /\ ops < MaxOps - 1 /\ \E f \in BOOLEAN : Reset(f)
    \/ ops < MaxOps - 1 /\ Check
    \/ /\ pc = "idle"
       /\ ops < MaxOps - 1
       /\ \E p \in ApiPaths, s \in SessionStarts : CallCheckPath(p, s)
    \/ PathStep

SpecApi == Init /\ [][NextApi]_vars

\* A used session is reset in full, then a context is set and a path is
\* checked: UsedOps operations of any kind, reset(full=True), set_context,
\* check_path_satisfiability.
UsedOps == MaxOps - 3

NextReset ==
    \/ pc = "idle" /\ ops < UsedOps /\ \E c \in SessionContexts : SetContext(c)
    \/ pc = "idle" /\ ops < UsedOps /\ \E i \in SessionInstrs : AddInstruction(i)
    \/ /\ pc = "idle"
       /\ ops < UsedOps
       /\ \E p \in SessionPaths, s \in SessionStarts : CallCheckPath(p, s)
    \/ pc = "idle" /\ ops = UsedOps /\ Reset(TRUE)
    \/ pc = "idle" /\ ops = UsedOps + 1 /\ \E c \in SessionContexts : SetContext(c)
    \/ /\ pc = "idle"
       /\ ops = UsedOps + 2
       /\ \E p \in SessionPaths, s \in SessionStarts : CallCheckPath(p, s)
    \/ PathStep

SpecReset == Init /\ [][NextReset]_vars

\* ------------------------------------------------- reading the call's trace

InPathCall == op = "check_path_satisfiability"

Idx == 1 .. Len(trace)

EvBlock(e) == path[e.bi]

EvNext(e) == path[e.bi + 1]

EvDinstr(e) == Instrs(path[e.bi])[e.di]

EvReil(e) == Instrs(path[e.bi])[e.di].ir_instrs[e.ii]

SamePlace(e, f) == e.bi = f.bi /\ e.di = f.di /\ e.ii = f.ii

IsAssertEv(e) == e.ev \in { "add", "goal" }

\* How many of the first k trace entries are solver.add calls.
Rank(k) == Cardinality({ j \in 1 .. k : IsAssertEv(trace[j]) })

\* The k-th trace entry is a solver.add call whose assertion sits where the
\* call put it on the solver's stack.
OnStack(k) ==
    /\ Len(solver_asserts) >= Rank(Len(trace))
    /\ solver_asserts[Len(solver_asserts) - Rank(Len(trace)) + Rank(k)] = trace[k].a

\* The k-th trace entry is the logger record of a JCC.
JccAt(k) ==
    /\ InPathCall
    /\ trace[k].ev = "reil"
    /\ EvReil(trace[k]).mnemonic = "jcc"

EndsBlock(e) ==
    EvDinstr(e).address + EvDinstr(e).size - 1 = EvBlock(e).end_address

TerminalJccAt(k) == JccAt(k) /\ EndsBlock(trace[k])

MisplacedJccAt(k) == JccAt(k) /\ ~EndsBlock(trace[k])

NoAssertionFor(k) ==
    \A j \in Idx : IsAssertEv(trace[j]) => ~SamePlace(trace[j], trace[k])

Matches(e, field) == EvNext(e).address = field

NoneMatch(e) ==
    /\ ~Matches(e, EvBlock(e).taken_branch)
    /\ ~Matches(e, EvBlock(e).not_taken_branch)
    /\ ~Matches(e, EvBlock(e).direct_branch)

\* The name a JCC's condition operand is asserted under.
CondName(e) ==
    IF EvReil(e).operands[1].kind = "imm" THEN "imm" ELSE EvReil(e).operands[1].name

\* Right after the k-th entry comes the single assertion branch_var == g.
GoalFollows(k, g) ==
    /\ k < Len(trace)
    /\ trace[k + 1].ev = "goal"
    /\ SamePlace(trace[k + 1], trace[k])
    /\ trace[k + 1].a.op = "const"
    /\ trace[k + 1].a.d[1] = CondName(trace[k])
    /\ trace[k + 1].a.c = g
    /\ OnStack(k + 1)
    /\ \A j \in Idx : (IsAssertEv(trace[j]) /\ SamePlace(trace[j], trace[k])) => j = k + 1

Returned == pc = "idle" /\ ret \in { "True", "False" }

Raised == pc = "raised" \/ (pc = "idle" /\ ret = "AssertionError")

HasCheck(b) == \E j \in Idx : trace[j].ev = "check" /\ trace[j].bi = b

Entered(b, d) == \E j \in Idx : trace[j].ev = "dinstr" /\ trace[j].bi = b /\ trace[j].di = d

\* ------------------------------------------------------------------ claims

\* C1: at a JCC in the native instruction that ends the block, the edge is
\* decided in the order taken, not-taken, direct: taken gives the single
\* assertion branch_var == 1 even when another field matches too, else
\* not-taken gives branch_var == 0, else a direct match gives no assertion.
C1_GoalByPriority ==
    \A k \in Idx : TerminalJccAt(k) =>
        IF Matches(trace[k], EvBlock(trace[k]).taken_branch) THEN GoalFollows(k, 1)
        ELSE IF Matches(trace[k], EvBlock(trace[k]).not_taken_branch) THEN GoalFollows(k, 0)
        ELSE IF Matches(trace[k], EvBlock(trace[k]).direct_branch) THEN NoAssertionFor(k)
        ELSE TRUE

C1_Witness ==
    \E k \in Idx :
        /\ TerminalJccAt(k)
        /\ Matches(trace[k], EvBlock(trace[k]).taken_branch)
        /\ Matches(trace[k], EvBlock(trace[k]).not_taken_branch)
        /\ Matches(trace[k], EvBlock(trace[k]).direct_branch)
        /\ GoalFollows(k, 1)
        /\ Returned

\* C2: a block check that is not satisfiable is the last thing the call does
\* (nothing is translated, asserted or checked after it) and the call returns
\* false; the call returns the verdict of its last check, and returns true
\* only after len(path) - 1 checks that were all satisfiable.
C2_StopsAtFirstUnsat ==
    /\ \A k \in Idx :
          (InPathCall /\ trace[k].ev = "check" /\ trace[k].v # "sat") =>
              /\ k = Len(trace)
              /\ ~sat
              /\ pc \in { "return", "idle" }
              /\ pc = "idle" => ret = "False"
    /\ (InPathCall /\ Returned /\ Len(path) >= 2) =>
          /\ trace # << >>
          /\ trace[Len(trace)].ev = "check"
          /\ ret = "True" <=> trace[Len(trace)].v = "sat"
          /\ ret = "True" =>
                /\ \A b \in 1 .. Len(path) - 1 : HasCheck(b)
                /\ \A k \in Idx : trace[k].ev = "check" => trace[k].v = "sat"

C2_Witness ==
    /\ InPathCall
    /\ Returned
    /\ ret = "False"
    /\ Len(path) = 3
    /\ trace[Len(trace)].ev = "check"
    /\ trace[Len(trace)].v = "unsat"
    /\ trace[Len(trace)].bi = 1

\* C3 as stated: an unmatched branch edge never makes the call raise.
C3_NeverRaises ==
    \A k \in Idx : (TerminalJccAt(k) /\ NoneMatch(trace[k])) => ~Raised

\* C3, amended: at a block-ending JCC whose block names the next block in none
\* of its three fields no assertion is added; when assert statements are
\* executed the call raises AssertionError there and does nothing more, and
\* only when they are not does the call go on; the call raises in no other case.
C3_UnmatchedEdge ==
    /\ \A k \in Idx : (TerminalJccAt(k) /\ NoneMatch(trace[k])) =>
          /\ NoAssertionFor(k)
          /\ IF debug THEN k = Len(trace) /\ Raised
             ELSE ~Raised /\ (k = Len(trace) => pc = "ir" /\ ii = trace[k].ii + 1)
    /\ Raised =>
          /\ debug
          /\ trace # << >>
          /\ TerminalJccAt(Len(trace))
          /\ NoneMatch(trace[Len(trace)])

C3_Witness ==
    /\ pc = "idle"
    /\ ret = "AssertionError"
    /\ TerminalJccAt(Len(trace))
    /\ NoneMatch(trace[Len(trace)])

\* What the trace holds right after the logger records of a skipped JCC at
\* entry k: the next REIL instruction, else the next native instruction, else
\* the block's check.
NextAfter(k, j) ==
    IF trace[k].ii < Len(EvDinstr(trace[k]).ir_instrs)
    THEN /\ trace[j].ev = "reil"
         /\ trace[j].bi = trace[k].bi
         /\ trace[j].di = trace[k].di
         /\ trace[j].ii = trace[k].ii + 1
    ELSE IF trace[k].di < Len(Instrs(EvBlock(trace[k])))
    THEN /\ trace[j].ev = "dinstr"
         /\ trace[j].bi = trace[k].bi
         /\ trace[j].di = trace[k].di + 1
    ELSE /\ trace[j].ev = "check"
         /\ trace[j].bi = trace[k].bi

\* C4: a JCC whose native instruction does not end the block is logged as an
\* error and skipped: no assertion is added for it, the call does not raise,
\* the instructions after it are processed next, and the block is still
\* checked.
C4_MisplacedJccSkipped ==
    \A k \in Idx : MisplacedJccAt(k) =>
        /\ k < Len(trace)
        /\ trace[k + 1].ev = "error"
        /\ NoAssertionFor(k)
        /\ Raised => Len(trace) > k + 1
        /\ k + 1 = Len(trace) =>
              /\ pc = "ir"
              /\ bi = trace[k].bi
              /\ di = trace[k].di
              /\ ii = trace[k].ii + 1
        /\ k + 1 < Len(trace) => NextAfter(k, k + 2)
        /\ (bi > trace[k].bi \/ pc = "return" \/ Returned) =>
              \E j \in Idx : j > k /\ trace[j].ev = "check" /\ trace[j].bi = trace[k].bi

C4_Witness ==
    \E k \in Idx :
        /\ MisplacedJccAt(k)
        /\ \E j \in Idx : j > k /\ trace[j].ev = "add" /\ trace[j].bi = trace[k].bi
        /\ \E j \in Idx : j > k /\ trace[j].ev = "check" /\ trace[j].bi = trace[k].bi

\* Where start_address is in the first block: the indices of its instructions
\* at that address.
StartIn(b) ==
    { j \in 1 .. Len(Instrs(path[b])) : Instrs(path[b])[j].address = start_address }

Min(S) == CHOOSE x \in S : \A y \in S : x <= y

\* C5: when the first block holds start_address, nothing is logged, translated
\* or asserted for the instructions before it, and the instruction at
\* start_address and those after it are entered one after the other, all of
\* them by the time the block is checked.
C5_FirstBlockFromStart ==
    (InPathCall /\ Len(path) >= 2 /\ StartIn(1) # {}) =>
        /\ \A k \in Idx :
              (trace[k].bi = 1 /\ trace[k].ev # "check") => trace[k].di >= Min(StartIn(1))
        /\ \A k \in Idx :
              (trace[k].bi = 1 /\ trace[k].ev = "dinstr" /\ trace[k].di > Min(StartIn(1))) =>
                  \E j \in 1 .. k - 1 :
                      /\ trace[j].ev = "dinstr"
                      /\ trace[j].bi = 1
                      /\ trace[j].di = trace[k].di - 1
        /\ \A j, k \in Idx :
              (j < k /\ trace[j].bi = 1 /\ trace[k].bi = 1
                 /\ trace[j].ev # "check" /\ trace[k].ev # "check") =>
                  \/ trace[j].di < trace[k].di
                  \/ trace[j].di = trace[k].di /\ trace[j].ii <= trace[k].ii
        /\ HasCheck(1) =>
              \A d \in Min(StartIn(1)) .. Len(Instrs(path[1])) : Entered(1, d)

C5_Witness ==
    /\ InPathCall
    /\ Len(path) >= 2
    /\ StartIn(1) # {}
    /\ Min(StartIn(1)) = 2
    /\ HasCheck(1)
    /\ ~Entered(1, 1)
    /\ Entered(1, 2)
    /\ \E k \in Idx : trace[k].ev = "add" /\ trace[k].bi = 1

\* The native instruction d of block b has been passed or entered.
Passed(b, d) ==
    \/ b < bi
    \/ b = bi /\ d < di
    \/ b = bi /\ d = di /\ (pc \in { "ir", "raised" } \/ (pc = "idle" /\ ret = "AssertionError"))

\* start_address was met at instruction d of block b or before it on the path.
StartSeenBy(b, d) ==
    \E c \in 1 .. b : \E j \in StartIn(c) : c < b \/ j <= d

\* C6 as stated: every block after the first is processed from its first
\* instruction, whatever start_address is.
C6_LaterBlocksWhole ==
    InPathCall =>
        \A b \in 2 .. Len(path) - 1 :
            HasCheck(b) => \A d \in 1 .. Len(Instrs(path[b])) : Entered(b, d)

\* C6, amended: skipping ends at the first instruction at start_address, in
\* whichever block it is: an instruction is processed exactly if it is that
\* instruction or comes after it on the path.  So when the first block holds
\* start_address every later block is processed from its first instruction,
\* and when it does not, skipping goes on into the later blocks.
C6_SkipsUntilStartFound ==
    InPathCall =>
        \A b \in 1 .. Len(path) - 1 :
            \A d \in 1 .. Len(Instrs(path[b])) :
                Passed(b, d) => (Entered(b, d) <=> StartSeenBy(b, d))

C6_Witness ==
    /\ InPathCall
    /\ Len(path) = 3
    /\ StartIn(1) = {}
    /\ StartIn(2) = {2}
    /\ HasCheck(2)
    /\ ~Entered(2, 1)
    /\ Entered(2, 2)

\* C7: the trace goes through the blocks in order, each block's check is the
\* last entry of that block, and every block the call has left has exactly one.
C7_OneCheckPerBlock ==
    InPathCall =>
        /\ \A j, k \in Idx : j < k => trace[j].bi <= trace[k].bi
        /\ \A j, k \in Idx : (j < k /\ trace[j].ev = "check") => trace[j].bi < trace[k].bi
        /\ \A k \in Idx : trace[k].bi <= bi
        /\ \A b \in 1 .. Len(path) - 1 :
              (b < bi \/ (b = bi /\ (pc = "return" \/ Returned))) => HasCheck(b)

C7_Witness ==
    /\ InPathCall
    /\ Returned
    /\ Len(path) = 3
    /\ HasCheck(2)
    /\ \E j, k \in Idx :
          /\ j < k
          /\ trace[j].ev = "goal" /\ trace[j].bi = 1
          /\ trace[k].ev = "add" /\ trace[k].bi = 2

\* C8: a branch-goal assertion is followed at once by the check of its block:
\* no instruction of the block is translated and nothing is asserted between.
C8_GoalThenCheck ==
    \A k \in Idx : trace[k].ev = "goal" =>
        IF k = Len(trace)
        THEN pc = "dinstr" /\ bi = trace[k].bi /\ di > Len(Instrs(BbCurr))
        ELSE trace[k + 1].ev = "check" /\ trace[k + 1].bi = trace[k].bi

C8_Witness ==
    \E k \in Idx :
        /\ trace[k].ev = "goal"
        /\ trace[k].ii < Len(EvDinstr(trace[k]).ir_instrs)
        /\ k < Len(trace)
        /\ trace[k + 1].ev = "check"

\* The instructions the call has translated so far, read off its log.
TranslatedAt(k) ==
    /\ trace[k].ev = "reil"
    /\ EvReil(trace[k]).mnemonic # "jcc"

\* The translator's versions when the call started: every translation
\* advanced its destination by one.
StartVer ==
    [n \in VerNames |->
        ver[n] - Cardinality({ k \in Idx : TranslatedAt(k) /\ DstName(EvReil(trace[k])) = n })]

\* The goal a logged JCC is given, None when it gets no assertion.
GoalAt(e) ==
    IF EndsBlock(e) THEN BranchGoal(EvBlock(e), EvNext(e)) ELSE None

\* The concatenation, in log order from entry k on, of each translated
\* instruction's assertions and of each branch goal.
RECURSIVE Expected(_, _)
Expected(k, v) ==
    IF k > Len(trace) THEN << >>
    ELSE IF trace[k].ev # "reil" THEN Expected(k + 1, v)
    ELSE LET i == EvReil(trace[k]) IN
         IF i.mnemonic = "jcc"
         THEN IF GoalAt(trace[k]) = None THEN Expected(k + 1, v)
              ELSE << BranchConstraint(v, i, GoalAt(trace[k])) >> \o Expected(k + 1, v)
         ELSE TranslateExprs(v, i) \o Expected(k + 1, TranslateVer(v, i))

\* The last n assertions of the solver's stack.
Newest(n) == SubSeq(solver_asserts, Len(solver_asserts) - n + 1, Len(solver_asserts))

\* Place e is not after place f on the path.
NotAfter(e, f) ==
    \/ e.bi < f.bi
    \/ e.bi = f.bi /\ e.di < f.di
    \/ e.bi = f.bi /\ e.di = f.di /\ e.ii <= f.ii

\* Log entry f, written right after e, is not at an earlier place of the
\* path: a check closes its block, anything else is at its instruction.
InPathOrder(e, f) ==
    IF e.ev = "check" THEN e.bi < f.bi
    ELSE IF f.ev = "check" THEN e.bi <= f.bi
    ELSE NotAfter(e, f)

\* The assertions of the call's solver.add calls, in the order of the calls.
TraceAsserts ==
    LET s == SelectSeq(trace, IsAssertEv)
    IN [k \in 1 .. Len(s) |-> s[k].a]

\* C9: assertions reach the solver in the order of translation.  During and
\* after check_path_satisfiability the newest assertions of the solver are
\* the concatenation, in path order, of the assertions of every instruction
\* translated so far, each branch goal coming after the assertions of the
\* instructions before its branch, and an assertion of a later instruction
\* never precedes one of an earlier instruction; after add_instruction they
\* are the instruction's assertions in the translator's order.
C9_AssertionsInTranslationOrder ==
    /\ InPathCall =>
          LET e == Expected(1, StartVer)
          IN /\ Len(solver_asserts) >= Len(e)
             /\ Newest(Len(e)) = e
             /\ TraceAsserts = e
             /\ \A k \in 1 .. (Len(trace) - 1) : InPathOrder(trace[k], trace[k + 1])
    /\ op = "add_instruction" =>
          \E i \in SessionInstrs :
             LET v == [ver EXCEPT ![DstName(i)] = @ - 1]
             IN /\ ver[DstName(i)] > 0
                /\ Len(trace) = Len(TranslateExprs(v, i))
                /\ Len(solver_asserts) >= Len(trace)
                /\ Newest(Len(trace)) = TranslateExprs(v, i)

\* A call on a solver that already held assertions translated two
\* instructions and then asserted a branch goal.
C9_Witness ==
    /\ InPathCall
    /\ Returned
    /\ Len(solver_asserts) > Rank(Len(trace))
    /\ \E j, k, g \in Idx :
          /\ j < k
          /\ k < g
          /\ trace[j].ev = "add"
          /\ trace[k].ev = "add"
          /\ ~SamePlace(trace[j], trace[k])
          /\ trace[g].ev = "goal"

\* The number of bindings of a context.
Bindings(c) ==
    Cardinality(DOMAIN c.registers) + Cardinality(DOMAIN c.flags)
        + Cardinality(DOMAIN c.memory)

\* How many of the assertions added last bind symbol `name` to `value`.
Bound(added, name, value) ==
    Cardinality({ k \in DOMAIN added :
        added[k].op = "const" /\ added[k].d[1] = name /\ added[k].c = value })

\* How many of the assertions added last are about symbol `name`.
About(added, name) ==
    Cardinality({ k \in DOMAIN added : added[k].d[1] = name })

\* C10: set_context adds exactly one assertion per register, per flag and
\* per memory address of the context, none about a name or an address the
\* context does not hold, and keeps every assertion the solver already had:
\* the stack after the call is the stack before it followed by
\* |registers| + |flags| + |memory| bindings.
C10_SetContextAddsBindings ==
    [][ (op' = "set_context" /\ ops' = ops + 1) =>
          LET c == context'[1]
              n == Len(solver_asserts)
              added == SubSeq(solver_asserts', n + 1, Len(solver_asserts'))
          IN /\ Len(solver_asserts') = n + Bindings(c)
             /\ SubSeq(solver_asserts', 1, n) = solver_asserts
             /\ \A r \in DOMAIN c.registers :
                   About(added, r) = 1 /\ Bound(added, r, c.registers[r]) = 1
             /\ \A f \in DOMAIN c.flags :
                   About(added, f) = 1 /\ Bound(added, f, c.flags[f]) = 1
             /\ \A a \in DOMAIN c.memory :
                   About(added, Cell(a)) = 1 /\ Bound(added, Cell(a), c.memory[a]) = 1
             /\ \A r \in { "eax", "ebx", "zf" } \ (DOMAIN c.registers \cup DOMAIN c.flags) :
                   About(added, r) = 0
             /\ \A k \in 1 .. Len(MemAddrs) :
                   MemAddrs[k] \notin DOMAIN c.memory => About(added, Cell(MemAddrs[k])) = 0
      ]_vars

\* A context with a register, a flag and an address, and without ebx and
\* address 0, was set on a solver that already held assertions.
C10_Witness ==
    /\ op = "set_context"
    /\ context # << >>
    /\ DOMAIN context[1].registers = { "eax" }
    /\ DOMAIN context[1].flags = { "zf" }
    /\ DOMAIN context[1].memory = { 1 }
    /\ Len(solver_asserts) > Bindings(context[1])

\* A step that is a whole set_context call.
SetContextStep == op' = "set_context" /\ ops' = ops + 1

\* The assertions the step pushed on the solver's stack.
Added == SubSeq(solver_asserts', Len(solver_asserts) + 1, Len(solver_asserts'))

\* C11: the assertion set_context emits for a register or a flag of the
\* context constrains the initial name of that register or flag, whatever
\* its current name is at the time of the call, and no translated
\* instruction ever defines an initial name: the binding stays the value
\* before the path whether the writes were translated before or after.
C11_BindsInitialNames ==
    [][ /\ SetContextStep =>
             \A n \in DOMAIN context'[1].registers \cup DOMAIN context'[1].flags :
                /\ \E k \in DOMAIN Added : Added[k].d = get_init_name(n)
                /\ ver[n] > 0 =>
                      \A k \in DOMAIN Added : Added[k].d # get_curr_name(ver, n)
        /\ \A k \in DOMAIN solver_asserts' :
              solver_asserts'[k].op # "const" =>
                 solver_asserts'[k].d # get_init_name(solver_asserts'[k].d[1])
      ]_vars

\* set_context bound eax after an instruction that wrote eax was translated:
\* the binding is on the initial name, above the write of the current one.
C11_Witness ==
    /\ op = "set_context"
    /\ "eax" \in DOMAIN context[1].registers
    /\ ver["eax"] > 0
    /\ \E j, k \in DOMAIN solver_asserts :
          /\ j < k
          /\ solver_asserts[j].op = "add"
          /\ solver_asserts[j].d = get_curr_name(ver, "eax")
          /\ solver_asserts[k].op = "const"
          /\ solver_asserts[k].d = get_init_name("eax")

\* A step that is a whole get_context call.
GetContextStep == op' = "get_context" /\ ops' = ops + 1

\* The symbols whose values the call that has just returned read.
ReadSyms == { trace[k].a.d : k \in Idx }

\* C12: get_context returns a snapshot with the keys of the context set
\* before, one value per register, flag and address, each read through the
\* current name, and it changes neither the stored reference context nor
\* the assertions of the solver.
C12_GetContextSnapshot ==
    [][ GetContextStep =>
          /\ context' = context
          /\ solver_asserts' = solver_asserts
          /\ ver' = ver
          /\ ret' = "GenericContext" =>
                LET c == context[1] IN
                /\ Len(trace') = Bindings(c)
                /\ \A k \in DOMAIN trace' : trace'[k].ev = "value"
                /\ \A n \in DOMAIN c.registers \cup DOMAIN c.flags :
                      Cardinality({ k \in DOMAIN trace' :
                                      trace'[k].a.d = get_curr_name(ver, n) }) = 1
                /\ \A a \in DOMAIN c.memory :
                      Cardinality({ k \in DOMAIN trace' :
                                      trace'[k].a.d = MemCurr(ver, a) }) = 1
      ]_vars

\* get_context returned a snapshot of a context with a register, a flag and
\* an address, the register read under a later name than its initial one
\* and with another value than the stored context has.
C12_Witness ==
    /\ op = "get_context"
    /\ ret = "GenericContext"
    /\ context[1].flags # << >>
    /\ context[1].memory # << >>
    /\ ver["eax"] > 0
    /\ \E k \in Idx :
          /\ trace[k].a.d = get_curr_name(ver, "eax")
          /\ trace[k].a.c # context[1].registers["eax"]

\* C13 as stated: get_context fails, returning no snapshot, whenever the
\* solver has no model, that is before any satisfiable check and after a
\* check that was not satisfiable.
C13_FailsWithoutModel ==
    [][ (GetContextStep /\ solver_status # "sat") => ret' # "GenericContext" ]_vars

\* C13, amended: without a model get_context fails exactly when it has
\* something to read.  With no context set it fails on the context itself;
\* with a context that has a register, a flag or an address its first lookup
\* fails; with an empty context it reads nothing and returns the empty
\* snapshot.  The solver has no model whenever its last verdict is not "sat".
C13_FailsWithoutModelIfRead ==
    [][ /\ solver_status # "sat" => solver_model = None
        /\ (GetContextStep /\ solver_status # "sat") =>
              IF context = << >> THEN ret' = "AttributeError"
              ELSE IF Bindings(context[1]) = 0
                   THEN ret' = "GenericContext" /\ trace' = << >>
                   ELSE ret' \in { "KeyError", "ModelError" } /\ trace' = << >>
      ]_vars

\* get_context failed on a context with entries after a check that was
\* unsatisfiable.
C13_Witness ==
    /\ op = "get_context"
    /\ ret \in { "KeyError", "ModelError" }
    /\ solver_status = "unsat"
    /\ context # << >>
    /\ Bindings(context[1]) > 0

\* The session of the end-to-end scenario: eax = 5 is set, then eax = eax + 1
\* and the test eax == 6 are translated and the taken edge is asserted.
ScenarioAsserts ==
    << Bind(get_init_name("eax"), 5),
       Expr("add", << "eax", 1 >>, << "eax", 0 >>, 1),
       Expr("add", << "t1", 1 >>, << "eax", 1 >>, (Modulus - 6) % Modulus),
       Expr("bisz", << "t0", 1 >>, << "t1", 1 >>, 0),
       Bind(<< "t0", 1 >>, 1) >>

\* C16: a snapshot get_context returns right after a satisfiable check holds
\* for every register, flag and address of the context the value of its
\* current name, and these values are consistent with every assertion
\* added; after eax = 5, eax = eax + 1 and the taken jump on eax == 6 the
\* snapshot reports eax = 6.
C16_PostPathValues ==
    (op = "get_context" /\ ret = "GenericContext" /\ solver_model = Len(solver_asserts)) =>
        /\ solver_status = "sat"
        /\ Satisfiable(EmptyEnv, solver_asserts \o [k \in Idx |-> trace[k].a])
        /\ ReadSyms = { get_curr_name(ver, n) :
                          n \in DOMAIN context[1].registers \cup DOMAIN context[1].flags }
                      \cup { MemCurr(ver, a) : a \in DOMAIN context[1].memory }
        /\ (solver_asserts = ScenarioAsserts /\ DOMAIN context[1].registers = { "eax" }) =>
              \E k \in Idx : trace[k].a = Bind(<< "eax", 1 >>, 6)

\* The end-to-end scenario happened and get_context reported eax = 6.
C16_Witness ==
    /\ op = "get_context"
    /\ ret = "GenericContext"
    /\ solver_status = "sat"
    /\ solver_asserts = ScenarioAsserts
    /\ context[1].registers = ("eax" :> 5)
    /\ trace = << Ev("value", 0, 0, 0, Bind(<< "eax", 1 >>, 6), "") >>

\* What set_context(c) and the path call so far put on the solver of a
\* fresh session: the bindings of c under the session-start names, then the
\* translation of the instructions processed, from the session-start names.
FreshAsserts(c) ==
    ContextExprs(InitVer, c) \o (IF InPathCall THEN Expected(1, InitVer) ELSE << >>)

\* C14: after a full reset of a used session, set_context and the path
\* check go as on a fresh session.  The reset leaves no assertion, no model
\* and every name at its session-start version; from then on the solver
\* holds exactly the assertions a fresh session holds, under the same
\* names, so every block check is decided on the same formula and has the
\* same verdict.
C14_FullResetAsFresh ==
    /\ ops = UsedOps + 1 =>
          /\ solver_asserts = << >>
          /\ solver_status = "none"
          /\ solver_model = None
          /\ ver = InitVer
    /\ ops = UsedOps + 2 =>
          /\ solver_asserts = FreshAsserts(context[1])
          /\ ver = InitVer
    /\ ops = UsedOps + 3 =>
          /\ StartVer = InitVer
          /\ solver_asserts = FreshAsserts(context[1])
          /\ (trace # << >> /\ trace[Len(trace)].ev = "check") =>
                trace[Len(trace)].v \in SolverCheck(FreshAsserts(context[1]))

\* After a used session was reset in full and a context set, a path check
\* asserted a branch goal and returned a verdict.
C14_Witness ==
    /\ ops = UsedOps + 3
    /\ UsedOps > 0
    /\ Returned
    /\ \E k \in Idx : trace[k].ev = "goal"
    /\ \E k \in Idx : trace[k].ev = "check" /\ trace[k].v = "unsat"

\* Concrete execution: the value of an operand in a machine state, None when
\* the state does not give one.
ConcreteVal(env, o) ==
    IF o.kind = "imm" THEN o.imm
    ELSE IF o.name \in DOMAIN env THEN env[o.name]
    ELSE None

\* The machine state after one instruction.
ConcreteStep(env, i) ==
    LET x == ConcreteVal(env, i.operands[1])
        y == CASE i.mnemonic = "add" -> (x + i.operands[2].imm) % Modulus
               [] i.mnemonic = "bisz" -> IF x = 0 THEN 1 ELSE 0
               [] OTHER -> None
    IN IF i.mnemonic \notin { "add", "bisz" } THEN env
       ELSE IF x = None THEN [n \in (DOMAIN env) \ { i.operands[3].name } |-> env[n]]
       ELSE [n \in (DOMAIN env) \cup { i.operands[3].name } |->
                IF n = i.operands[3].name THEN y ELSE env[n]]

\* The machine state after the instructions of the first k log entries,
\* started in the context that was set.
RECURSIVE ConcreteEnv(_)
ConcreteEnv(k) ==
    IF k = 0 THEN context[1].registers @@ context[1].flags
    ELSE IF trace[k].ev = "reil"
         THEN ConcreteStep(ConcreteEnv(k - 1), EvReil(trace[k]))
         ELSE ConcreteEnv(k - 1)

\* The concrete value of the condition of the JCC logged at entry k.
CondValue(k) == ConcreteVal(ConcreteEnv(k - 1), EvReil(trace[k]).operands[1])

\* A two-block path was checked after a context was set, the solver decided,
\* and entry k is the conditional jump ending the first block, its condition
\* concrete.
ConcreteJccAt(k) ==
    /\ InPathCall
    /\ Returned
    /\ Len(path) = 2
    /\ context # << >>
    /\ TerminalJccAt(k)
    /\ CondValue(k) \in { 0, 1 }
    /\ \A j \in Idx : trace[j].ev = "check" => trace[j].v # "unknown"

ResetStep == op' = "reset" /\ ops' = ops + 1

\* The call that has just returned was reset(full=True).
WasFull == \E k \in Idx : trace[k].ev = "reset" /\ trace[k].v = "translator"

\* C17: every reset empties the assertions of the solver and keeps the
\* stored reference context; reset(full=False) keeps the translator's
\* version of every name, reset(full=True) alone puts every name back to
\* its session-start version.
C17_ResetFrame ==
    [][ ResetStep =>
          /\ solver_asserts' = << >>
          /\ context' = context
          /\ ver' = IF WasFull' THEN InitVer ELSE ver
      ]_vars

\* reset(full=False) on a session with a context, assertions gone and a
\* name past its session-start version.
C17_Witness ==
    /\ op = "reset"
    /\ ~WasFull
    /\ solver_asserts = << >>
    /\ context # << >>
    /\ ver # InitVer

\* C18: check_path_satisfiability never processes the final block of the
\* path: every record and every solver call of the call is about one of the
\* blocks path[0 .. len-2].  With fewer than two blocks the call does
\* nothing to the session: it adds no assertion, issues no check, leaves the
\* translator's names alone, and returns false.
C18_FinalBlockUntouched ==
    [][ InPathCall' =>
          /\ \A k \in DOMAIN trace' : trace'[k].bi < Len(path')
          /\ (pc' # "return" /\ pc' # "idle") => bi' < Len(path')
          /\ Len(path') < 2 =>
                /\ trace' = << >>
                /\ solver_asserts' = solver_asserts
                /\ solver_status' = solver_status
                /\ solver_model' = solver_model
                /\ ver' = ver
                /\ pc' = "idle" => ret' = "False"
      ]_vars

\* A path of three blocks was found satisfiable: its first two blocks were
\* checked, and its final block, which has instructions, was not entered.
C18_Witness ==
    /\ InPathCall
    /\ Returned
    /\ ret = "True"
    /\ Len(path) = 3
    /\ Instrs(path[3]) # << >>
    /\ HasCheck(1)
    /\ HasCheck(2)
    /\ \A k \in Idx : trace[k].bi # 3

\* Sequence s is the beginning of sequence t.
IsPrefix(s, t) == Len(s) <= Len(t) /\ SubSeq(t, 1, Len(s)) = s

\* C19: only reset takes assertions away.  Every step of every other
\* operation keeps the assertions the solver had, in place, and a path check
\* that returns false leaves what it added; so once a check was
\* unsatisfiable no later check of the session is satisfiable before a
\* reset: a "sat" verdict is only ever given on assertions all of whose
\* earlier states were satisfiable.
C19_OnlyResetShrinks ==
    [][ /\ ~ResetStep =>
             /\ IsPrefix(solver_asserts, solver_asserts')
             /\ solver_status = "unsat" => solver_status' # "sat"
        /\ (solver_model' # None /\ solver_model' = Len(solver_asserts')) =>
              \A n \in 0 .. Len(solver_asserts') :
                 Satisfiable(EmptyEnv, SubSeq(solver_asserts', 1, n))
      ]_vars

\* eax = 5 was set, the path over the taken edge of the jump on eax == 6 was
\* checked from the instruction after eax = eax + 1, and a later check()
\* found the assertions that call left behind unsatisfiable.
C19_Witness ==
    /\ op = "check"
    /\ ret = "unsat"
    /\ ops = 3
    /\ solver_asserts =
          << Bind(get_init_name("eax"), 5),
             Expr("add", << "t1", 1 >>, << "eax", 0 >>, (Modulus - 6) % Modulus),
             Expr("bisz", << "t0", 1 >>, << "t1", 1 >>, 0),
             Bind(<< "t0", 1 >>, 1) >>

\* The verdicts of the block checks of the call, in the order of the checks.
Verdicts ==
    LET s == SelectSeq(trace, LAMBDA e : e.ev = "check")
    IN [k \in 1 .. Len(s) |-> s[k].v]

\* C20: only the verdict "sat" lets the call go on.  Every block check but
\* the last one of a call returned exactly "sat"; a check that returned
\* "unsat" or "unknown" is the last one and the call returns false; the
\* call returns true exactly when it checked every block before the final
\* one and every verdict was "sat".
C20_OnlySatCounts ==
    InPathCall =>
        /\ \A k \in 1 .. Len(Verdicts) - 1 : Verdicts[k] = "sat"
        /\ (Verdicts # << >> /\ Verdicts[Len(Verdicts)] \in { "unsat", "unknown" }) =>
              /\ trace[Len(trace)].ev = "check"
              /\ pc \in { "return", "idle" }
              /\ ~sat
        /\ Returned =>
              (ret = "True" <=>
                  /\ Len(path) >= 2
                  /\ Len(Verdicts) = Len(path) - 1
                  /\ \A k \in DOMAIN Verdicts : Verdicts[k] = "sat")

\* The solver gave up on the first block of a path of three although the
\* assertions are satisfiable: the call stopped there and returned false.
C20_Witness ==
    /\ InPathCall
    /\ Returned
    /\ ret = "False"
    /\ Len(path) = 3
    /\ Verdicts = << "unknown" >>
    /\ Satisfiable(EmptyEnv, solver_asserts)

====
